---- MODULE Spec2Model ----
(***************************************************************************)
(* Model of the table-ordering application: the dish customization dialog  *)
(* (DishCustomizationDialog / DishCustomizationDialogKids), the cart kept  *)
(* by the menu pages (Menu, MenuKids and the dish-id keyed Menu), and the  *)
(* staff order board (OrdersManagement) talking to the hosted backend.     *)
(*                                                                         *)
(* Money is kept in cents (8.00 EUR is 800), so the sums and products the  *)
(* code computes on JavaScript numbers are exact integers here.            *)
(* JavaScript arrays are 0-based: the item at array index i is the         *)
(* element i + 1 of the TLA+ sequence.                                     *)
(***************************************************************************)
EXTENDS Integers, Sequences, FiniteSets, Bags, TLC

VARIABLES
    \* ---- menu page + customization dialog (one browser session) ----
    variant,              \* which dialog component the page mounts
    selectedDish,         \* Menu.selectedDish (a Dish record or NoDish)
    isCustomizationOpen,  \* Menu.isCustomizationOpen, the dialog's isOpen prop
    optionGroups,         \* dialog state: the groups it displays and validates
    selectedOptions,      \* dialog state: sequence of SelectedOption
    comment,              \* dialog state: the free-text note
    isLoading,            \* dialog state
    fetches,              \* fetchOptionGroups calls awaiting the backend, by dish id
    toast,                \* title of the last toast the page or the dialog raised
    cart,                 \* Menu.cart: sequence of CartItem
    \* ---- cart bookkeeping ----
    page,                 \* which page owns the cart: index keyed or dish-id keyed
    lastRemoval,          \* argument of the removal applied by the last cart call
    \* ---- staff order board ----
    dbStatus,             \* persisted orders.status, by order id
    orders,               \* per client: OrdersManagement.orders (order id -> status)
    loading,              \* per client: OrdersManagement.loading
    fetchReq,             \* per client: fetchOrders requests not yet served
    fetchResp,            \* per client: fetchOrders responses on their way back
    updReq,               \* status updates on their way to the backend
    updResp,              \* per client: update responses on their way back
    notif,                \* per client: change notifications not yet handled
    boardToast,           \* per client: the last toast of the board
    failures,             \* requests of the boards the backend has failed so far
    dbRows,               \* persisted orders: the fields other than status
    \* ---- menu page: session context and dish list ----
    tableNumber,          \* sessionStorage.getItem("tableNumber")
    restaurantId,         \* sessionStorage.getItem("restaurantId")
    route,                \* the route the router shows
    mountPending,         \* the page's mount effect has not run yet
    dishes,               \* Menu.dishes
    menuIsLoading,        \* Menu.isLoading
    dishFetch,            \* fetchDishes calls awaiting the backend
    \* ---- catalog tables of the backend ----
    tblDishes,            \* dishes: the ids of the rows
    tblGroups,            \* dish_option_groups: rows [id, dish_id]
    tblOptions,           \* dish_options: rows [id, option_group_id]
    lastWrite,            \* the last statement on the option tables and its result
    \* ---- the boards' realtime channels ----
    mounted,              \* per client: OrdersManagement is mounted
    channel,              \* per client: the channel its mount effect holds
    subscribed,           \* the channels the realtime client has subscribed
    opened,               \* channels opened so far
    \* ---- AdminDashboard ----
    account,              \* the visitor: signed in or not, and their role rows
    signedIn,             \* the auth session is live
    authPc,               \* where checkAuth stands
    userRole,             \* AdminDashboard.userRole
    dashLoading,          \* AdminDashboard.loading
    adminRoute,           \* the route the router shows
    dashToast             \* the last toast of the dashboard

dialogVars == <<variant, selectedDish, isCustomizationOpen, optionGroups,
                selectedOptions, comment, isLoading, fetches, toast>>
cartVars   == <<cart, page, lastRemoval>>
orderVars  == <<dbStatus, orders, loading, fetchReq, fetchResp, updReq, updResp,
                notif, boardToast, failures, dbRows>>
menuVars   == <<tableNumber, restaurantId, route, mountPending, dishes,
                menuIsLoading, dishFetch>>
catalogVars == <<tblDishes, tblGroups, tblOptions, lastWrite>>
channelVars == <<mounted, channel, subscribed, opened>>
authVars   == <<account, signedIn, authPc, userRole, dashLoading, adminRoute,
                dashToast>>
adminVars  == <<catalogVars, channelVars, authVars>>
vars       == <<dialogVars, cartVars, orderVars, menuVars, adminVars>>

Null      == "null"
Undefined == "undefined"

(***************************************************************************)
(* Bounds                                                                  *)
(***************************************************************************)
MaxFetches == 2    \* fetchOptionGroups calls in flight at once
MaxAdds    == 1    \* line items the dialog session puts into the cart
MaxCart    == 2    \* line items in the cart of the cart-editing session
MaxQty     == 2    \* largest quantity the cart sheet asks for
MaxPending == 1    \* requests of one kind a staff client has in flight
MaxFailures == 1   \* requests of the boards that the backend fails
MaxMounts  == 3    \* mounts of OrdersManagement components
MaxInFlight == 2   \* fetchOrders queries of one board under way at once

(***************************************************************************)
(* Catalog: the rows of dishes, dish_option_groups and dish_options.       *)
(***************************************************************************)
Opt(id, pm) == [id |-> id, name |-> id, price_modifier |-> pm]

Group(id, req, multi, opts) ==
    [id |-> id, name |-> id, is_required |-> req, allow_multiple |-> multi,
     options |-> opts]

Dish(id, price) == [id |-> id, name |-> id, price |-> price]

\* the value of a `Dish | null` that is null
NoDish == Dish(Null, 0)

Dishes == { Dish("burger", 800), Dish("salad", 550), Dish("water", 200) }

DishIds == { d.id : d \in Dishes }

\* dish_option_groups joined with dish_options, each in display_order
CatalogGroups(dishId) ==
    CASE dishId = "burger" ->
           << Group("bread", TRUE, FALSE,
                    << Opt("brioche", 0), Opt("multigrain", 50) >>),
              Group("sauce", TRUE, TRUE,
                    << Opt("ketchup", 0), Opt("bbq", 30) >>) >>
      [] dishId = "salad" ->
           << Group("dressing", FALSE, FALSE,
                    << Opt("vinaigrette", 0) >>) >>
      [] OTHER -> << >>

Range(s) == { s[i] : i \in 1..Len(s) }

AllGroups == UNION { Range(CatalogGroups(d)) : d \in DishIds }

Comments == { "", "sans oignons" }

(***************************************************************************)
(* DishCustomizationDialog: pure parts                                     *)
(***************************************************************************)
SelectedOption(group, option) ==
    [groupId |-> group.id, groupName |-> group.name,
     optionId |-> option.id, optionName |-> option.name,
     priceModifier |-> option.price_modifier]

RECURSIVE Filter(_, _)
\* Array.prototype.filter with the predicate given as the set of kept values
Filter(s, keep) ==
    IF s = << >> THEN << >>
    ELSE IF Head(s) \in keep THEN << Head(s) >> \o Filter(Tail(s), keep)
         ELSE Filter(Tail(s), keep)

\* handleOptionToggle unchecking every option of the group at once
handleOptionToggleClearingGroup(sel, group, option, checked) ==
    IF checked
    THEN IF group.allow_multiple
         THEN Append(sel, SelectedOption(group, option))
         ELSE Append(Filter(sel, { o \in Range(sel) : o.groupId /= group.id }),
                     SelectedOption(group, option))
    ELSE Filter(sel, { o \in Range(sel) : o.groupId /= group.id })

\* handleOptionToggle without the replacement in single-select groups
handleOptionToggleAccumulating(sel, group, option, checked) ==
    IF checked
    THEN Append(sel, SelectedOption(group, option))
    ELSE Filter(sel, { o \in Range(sel) : o.optionId /= option.id })

handleOptionToggle(sel, group, option, checked) ==
    IF checked
    THEN IF group.allow_multiple
         THEN Append(sel, SelectedOption(group, option))
         ELSE Append(Filter(sel, { o \in Range(sel) : o.groupId /= group.id }),
                     SelectedOption(group, option))
    ELSE Filter(sel, { o \in Range(sel) : o.optionId /= option.id })

handleRadioChange(sel, group, optionId) ==
    LET found == { i \in 1..Len(group.options) : group.options[i].id = optionId }
    IN  IF found = {} THEN sel
        ELSE LET option == group.options[CHOOSE i \in found : \A j \in found : i <= j]
             IN  Append(Filter(sel, { o \in Range(sel) : o.groupId /= group.id }),
                        SelectedOption(group, option))

\* isGroupValid without the is_required shortcut
isGroupValidAlwaysRequired(sel, group) ==
    \E i \in 1..Len(sel) : sel[i].groupId = group.id

isGroupValid(sel, group) ==
    IF ~group.is_required THEN TRUE
    ELSE \E i \in 1..Len(sel) : sel[i].groupId = group.id

canAddToCart(groups, sel) ==
    \A i \in 1..Len(groups) : isGroupValid(sel, groups[i])

RECURSIVE SumModifiers(_)
\* selectedOptions.reduce((sum, opt) => sum + opt.priceModifier, 0)
SumModifiers(sel) ==
    IF sel = << >> THEN 0
    ELSE sel[1].priceModifier + SumModifiers(Tail(sel))

getTotalPrice(dish, sel) ==
    IF dish = NoDish THEN 0 ELSE dish.price + SumModifiers(sel)

(***************************************************************************)
(* Menu / MenuKids: the cart, keyed by array index                         *)
(***************************************************************************)
CartItem(dish, quantity, sel, c) ==
    [id |-> dish.id, name |-> dish.name, price |-> dish.price,
     quantity |-> quantity, selectedOptions |-> sel, comment |-> c]

\* the line's subtotal as the cart sheet derives it from the item it is given
Subtotal(item) ==
    (item.price + SumModifiers(item.selectedOptions)) * item.quantity

\* addToCart merging into the line the cart already holds for the dish
addToCartMerging(prev, dish, sel, c) ==
    IF \E k \in 1..Len(prev) : prev[k].id = dish.id
    THEN [ k \in 1..Len(prev) |->
             IF prev[k].id = dish.id
             THEN [prev[k] EXCEPT !.quantity = prev[k].quantity + 1]
             ELSE prev[k] ]
    ELSE Append(prev, CartItem(dish, 1, sel, IF c = "" THEN Undefined ELSE c))

\* addToCart storing the customized unit price as the item's price
addToCartRepriced(prev, dish, sel, c) ==
    Append(prev, CartItem([dish EXCEPT !.price = dish.price + SumModifiers(sel)],
                          1, sel, IF c = "" THEN Undefined ELSE c))

addToCart(prev, dish, sel, c) ==
    Append(prev, CartItem(dish, 1, sel, IF c = "" THEN Undefined ELSE c))

RECURSIVE FilterIndex(_, _, _)
\* prev.filter((_, idx) => idx !== itemIndex), idx counted from `from`
FilterIndex(prev, from, itemIndex) ==
    IF prev = << >> THEN << >>
    ELSE IF from /= itemIndex
         THEN << Head(prev) >> \o FilterIndex(Tail(prev), from + 1, itemIndex)
         ELSE FilterIndex(Tail(prev), from + 1, itemIndex)

\* removeFromCart counting the positions from 1
removeFromCartOneBased(prev, itemIndex) == FilterIndex(prev, 1, itemIndex)

removeFromCart(prev, itemIndex) == FilterIndex(prev, 0, itemIndex)

\* updateCartItem writing the quantity and the comment into every item
updateCartItemEveryItem(prev, itemIndex, quantity, c) ==
    IF quantity = 0
    THEN FilterIndex(prev, 0, itemIndex)
    ELSE [ k \in 1..Len(prev) |->
             [prev[k] EXCEPT !.quantity = quantity, !.comment = c] ]

\* updateCartItem rebuilding the item without its selected options
updateCartItemDroppingOptions(prev, itemIndex, quantity, c) ==
    IF quantity = 0
    THEN FilterIndex(prev, 0, itemIndex)
    ELSE [ k \in 1..Len(prev) |->
             IF k - 1 = itemIndex
             THEN [prev[k] EXCEPT !.quantity = quantity, !.comment = c,
                                  !.selectedOptions = << >>]
             ELSE prev[k] ]

\* updateCartItem without the quantity === 0 case
updateCartItemKeepingZero(prev, itemIndex, quantity, c) ==
    [ k \in 1..Len(prev) |->
        IF k - 1 = itemIndex
        THEN [prev[k] EXCEPT !.quantity = quantity, !.comment = c]
        ELSE prev[k] ]

updateCartItem(prev, itemIndex, quantity, c) ==
    IF quantity = 0
    THEN FilterIndex(prev, 0, itemIndex)
    ELSE [ k \in 1..Len(prev) |->
             IF k - 1 = itemIndex
             THEN [prev[k] EXCEPT !.quantity = quantity, !.comment = c]
             ELSE prev[k] ]

(***************************************************************************)
(* Dish-id keyed Menu (the page without the customization dialog)          *)
(***************************************************************************)
addToCartById(prev, dish) ==
    IF \E k \in 1..Len(prev) : prev[k].id = dish.id
    THEN [ k \in 1..Len(prev) |->
             IF prev[k].id = dish.id
             THEN [prev[k] EXCEPT !.quantity = prev[k].quantity + 1]
             ELSE prev[k] ]
    ELSE Append(prev, CartItem(dish, 1, << >>, Undefined))

removeFromCartById(prev, dishId) ==
    Filter(prev, { item \in Range(prev) : item.id /= dishId })

updateCartItemById(prev, dishId, quantity, c) ==
    IF quantity = 0
    THEN Filter(prev, { item \in Range(prev) : item.id /= dishId })
    ELSE [ k \in 1..Len(prev) |->
             IF prev[k].id = dishId
             THEN [prev[k] EXCEPT !.quantity = quantity, !.comment = c]
             ELSE prev[k] ]

(***************************************************************************)
(* The menu page with its customization dialog, as a state machine         *)
(***************************************************************************)
InFlight == fetches["burger"] + fetches["salad"] + fetches["water"]

InitDialog ==
    /\ selectedDish = NoDish
    /\ isCustomizationOpen = FALSE
    /\ optionGroups = << >>
    /\ selectedOptions = << >>
    /\ comment = ""
    /\ isLoading = FALSE
    /\ fetches = [ d \in DishIds |-> 0 ]
    /\ toast = "none"

\* Menu.handleDishClick, then the dialog's effect on [dish, isOpen]:
\* fetchOptionGroups() up to its first await, setSelectedOptions([]), setComment("")
handleDishClick(dish) ==
    /\ ~isCustomizationOpen
    /\ Len(cart) < MaxAdds
    /\ InFlight < MaxFetches
    /\ selectedDish' = dish
    /\ isCustomizationOpen' = TRUE
    /\ isLoading' = TRUE
    /\ fetches' = [fetches EXCEPT ![dish.id] = @ + 1]
    /\ selectedOptions' = << >>
    /\ comment' = ""
    /\ UNCHANGED <<variant, optionGroups, toast, cartVars, orderVars, menuVars, adminVars>>

\* fetchOptionGroups after its awaits: both queries answered
fetchOptionGroupsDone(dishId) ==
    /\ fetches[dishId] > 0
    /\ fetches' = [fetches EXCEPT ![dishId] = @ - 1]
    /\ optionGroups' = IF Len(CatalogGroups(dishId)) > 0
                       THEN CatalogGroups(dishId) ELSE << >>
    /\ isLoading' = FALSE
    /\ UNCHANGED <<variant, selectedDish, isCustomizationOpen, selectedOptions,
                   comment, toast, cartVars, orderVars, menuVars, adminVars>>

\* fetchOptionGroups after its awaits: a query failed (catch, finally)
fetchOptionGroupsFailed(dishId) ==
    /\ fetches[dishId] > 0
    /\ fetches' = [fetches EXCEPT ![dishId] = @ - 1]
    /\ toast' = "Erreur"
    /\ isLoading' = FALSE
    /\ UNCHANGED <<variant, selectedDish, isCustomizationOpen, optionGroups,
                   selectedOptions, comment, cartVars, orderVars, menuVars, adminVars>>

\* the groups are rendered only while the dialog is open and not loading
GroupsShown == isCustomizationOpen /\ selectedDish /= NoDish /\ ~isLoading

isSelected(option) ==
    \E i \in 1..Len(selectedOptions) : selectedOptions[i].optionId = option.id

\* a checkbox that reports "checked" whatever it shows
ToggleOptionAlwaysOn(group, option) ==
    /\ GroupsShown
    /\ group \in Range(optionGroups)
    /\ option \in Range(group.options)
    /\ variant = "kids" \/ group.allow_multiple
    /\ Len(selectedOptions) < 4
    /\ selectedOptions' = handleOptionToggle(selectedOptions, group, option, TRUE)
    /\ UNCHANGED <<variant, selectedDish, isCustomizationOpen, optionGroups,
                   comment, isLoading, fetches, toast, cartVars, orderVars, menuVars, adminVars>>

\* Checkbox onCheckedChange (multi-select groups of the standard dialog) and the
\* option button of the kids dialog (every group): the new value is the
\* negation of the rendered one
ToggleOption(group, option) ==
    /\ GroupsShown
    /\ group \in Range(optionGroups)
    /\ option \in Range(group.options)
    /\ variant = "kids" \/ group.allow_multiple
    /\ selectedOptions' =
         handleOptionToggle(selectedOptions, group, option, ~isSelected(option))
    /\ UNCHANGED <<variant, selectedDish, isCustomizationOpen, optionGroups,
                   comment, isLoading, fetches, toast, cartVars, orderVars, menuVars, adminVars>>

\* RadioGroup onValueChange (single-select groups of the standard dialog)
RadioChange(group, option) ==
    /\ GroupsShown
    /\ variant = "standard"
    /\ group \in Range(optionGroups)
    /\ ~group.allow_multiple
    /\ option \in Range(group.options)
    /\ selectedOptions' = handleRadioChange(selectedOptions, group, option.id)
    /\ UNCHANGED <<variant, selectedDish, isCustomizationOpen, optionGroups,
                   comment, isLoading, fetches, toast, cartVars, orderVars, menuVars, adminVars>>

\* Textarea onChange
SetComment(c) ==
    /\ isCustomizationOpen
    /\ selectedDish /= NoDish
    /\ c /= comment
    /\ comment' = c
    /\ UNCHANGED <<variant, selectedDish, isCustomizationOpen, optionGroups,
                   selectedOptions, isLoading, fetches, toast, cartVars, orderVars, menuVars, adminVars>>

\* onClose: Annuler, the overlay, Escape
CloseDialog ==
    /\ isCustomizationOpen
    /\ isCustomizationOpen' = FALSE
    /\ UNCHANGED <<variant, selectedDish, optionGroups, selectedOptions, comment,
                   isLoading, fetches, toast, cartVars, orderVars, menuVars, adminVars>>

\* the "Ajouter au panier" button: disabled={!canAddToCart()}
AddButtonEnabled ==
    /\ isCustomizationOpen
    /\ selectedDish /= NoDish
    /\ canAddToCart(optionGroups, selectedOptions)

\* handleAddToCart, with Menu.addToCart as onAddToCart and onClose
handleAddToCart ==
    /\ AddButtonEnabled
    /\ Len(cart) < MaxAdds
    /\ IF ~canAddToCart(optionGroups, selectedOptions)
       THEN /\ toast' = "Options manquantes"
            /\ UNCHANGED <<cart, isCustomizationOpen>>
       ELSE /\ cart' = addToCart(cart, selectedDish, selectedOptions, comment)
            /\ toast' = "Ajoute au panier"
            /\ isCustomizationOpen' = FALSE
    /\ UNCHANGED <<variant, selectedDish, optionGroups, selectedOptions, comment,
                   isLoading, fetches, page, lastRemoval, orderVars, menuVars, adminVars>>

(***************************************************************************)
(* The cart sheet's calls on the page's cart functions                     *)
(***************************************************************************)
\* what the last cart call removed: `by` is the function called, `removed` the
\* number of line items it deleted, `repeat` whether the call before it was a
\* removal with the same argument
Removal(by, index, dishId, removed, repeat) ==
    [by |-> by, index |-> index, dishId |-> dishId, removed |-> removed,
     repeat |-> repeat]

NoRemoval == Removal("none", -1, Null, 0, FALSE)

\* arguments of the cart sheet's onUpdateItem / onRemoveItem calls
Indices == -1 .. MaxCart

Quantities == 0 .. MaxQty

UpdateComments == { Undefined, "sans oignons" }

\* selections the dialog hands to onAddToCart: options picked one after the
\* other, starting from the empty selection a dialog opens with
Pick(sel, group, option) ==
    IF group.allow_multiple
    THEN handleOptionToggle(sel, group, option, TRUE)
    ELSE handleRadioChange(sel, group, option.id)

RECURSIVE Picked(_, _, _)
Picked(sel, groups, picks) ==
    IF picks = << >> THEN sel
    ELSE LET group == groups[picks[1][1]]
         IN  Picked(Pick(sel, group, group.options[picks[1][2]]), groups,
                    Tail(picks))

PickLists(dishId) ==
    CASE dishId = "burger" ->
           { << >>, << <<1, 2>> >>, << <<1, 1>>, <<2, 1>>, <<2, 2>> >> }
      [] dishId = "salad" -> { << >>, << <<1, 1>> >> }
      [] OTHER -> { << >> }

DialogResults(dishId) ==
    { Picked(<< >>, CatalogGroups(dishId), p) : p \in PickLists(dishId) }

IndexKeyed == page \in { "Menu", "MenuKids" }

CartAdd(dish, sel, c) ==
    /\ IndexKeyed
    /\ Len(cart) < MaxCart
    /\ cart' = addToCart(cart, dish, sel, c)
    /\ lastRemoval' = NoRemoval
    /\ UNCHANGED <<page, dialogVars, orderVars, menuVars, adminVars>>

CartUpdate(itemIndex, quantity, c) ==
    /\ IndexKeyed
    /\ cart' = updateCartItem(cart, itemIndex, quantity, c)
    /\ lastRemoval' =
         IF quantity = 0
         THEN Removal("updateCartItem", itemIndex, Null, Len(cart) - Len(cart'),
                      lastRemoval.by /= "none" /\ lastRemoval.index = itemIndex)
         ELSE NoRemoval
    /\ UNCHANGED <<page, dialogVars, orderVars, menuVars, adminVars>>

CartRemove(itemIndex) ==
    /\ IndexKeyed
    /\ cart' = removeFromCart(cart, itemIndex)
    /\ lastRemoval' =
         Removal("removeFromCart", itemIndex, Null, Len(cart) - Len(cart'),
                 lastRemoval.by /= "none" /\ lastRemoval.index = itemIndex)
    /\ UNCHANGED <<page, dialogVars, orderVars, menuVars, adminVars>>

QuantityOf(dishId) ==
    IF \E k \in 1..Len(cart) : cart[k].id = dishId
    THEN cart[CHOOSE k \in 1..Len(cart) : cart[k].id = dishId].quantity
    ELSE 0

CartAddById(dish) ==
    /\ page = "MenuById"
    /\ QuantityOf(dish.id) < MaxQty
    /\ cart' = addToCartById(cart, dish)
    /\ lastRemoval' = NoRemoval
    /\ UNCHANGED <<page, dialogVars, orderVars, menuVars, adminVars>>

CartUpdateById(dishId, quantity, c) ==
    /\ page = "MenuById"
    /\ cart' = updateCartItemById(cart, dishId, quantity, c)
    /\ lastRemoval' =
         IF quantity = 0
         THEN Removal("updateCartItem", -1, dishId, Len(cart) - Len(cart'),
                      lastRemoval.by /= "none" /\ lastRemoval.dishId = dishId)
         ELSE NoRemoval
    /\ UNCHANGED <<page, dialogVars, orderVars, menuVars, adminVars>>

CartRemoveById(dishId) ==
    /\ page = "MenuById"
    /\ cart' = removeFromCartById(cart, dishId)
    /\ lastRemoval' =
         Removal("removeFromCart", -1, dishId, Len(cart) - Len(cart'),
                 lastRemoval.by /= "none" /\ lastRemoval.dishId = dishId)
    /\ UNCHANGED <<page, dialogVars, orderVars, menuVars, adminVars>>

(***************************************************************************)
(* Menu / MenuKids: the session check of the mount effect and fetchDishes  *)
(***************************************************************************)
\* !value of a `string | null`
Falsy(v) == v = Null \/ v = ""

RouteOf(p) == IF p = "MenuKids" THEN "/menu-kids" ELSE "/menu"

\* the rows of dishes with is_available, ordered by category and name
AvailableDishes == << Dish("burger", 800), Dish("salad", 550), Dish("water", 200) >>

TableNumbers == { Null, "", "7" }

RestaurantIds == { Null, "r1" }

\* the page as constructed, before its mount effect has run
InitMenu ==
    /\ route = RouteOf(page)
    /\ mountPending = TRUE
    /\ dishes = << >>
    /\ menuIsLoading = TRUE
    /\ dishFetch = 0

\* the page of a session with its table context, after fetchDishes succeeded
InitMenuLoaded ==
    /\ tableNumber = "7"
    /\ restaurantId = "r1"
    /\ route = RouteOf(page)
    /\ mountPending = FALSE
    /\ dishes = AvailableDishes
    /\ menuIsLoading = FALSE
    /\ dishFetch = 0

\* the mount effect calling fetchDishes() whatever the session storage holds
MenuMountUnchecked ==
    /\ mountPending
    /\ mountPending' = FALSE
    /\ dishFetch' = dishFetch + 1
    /\ UNCHANGED <<tableNumber, restaurantId, route, dishes, menuIsLoading,
                   dialogVars, cartVars, orderVars, adminVars>>

\* the mount effect: the session check, then fetchDishes() up to its await
MenuMount ==
    /\ mountPending
    /\ mountPending' = FALSE
    /\ IF Falsy(tableNumber) \/ Falsy(restaurantId)
       THEN /\ toast' = "Erreur"
            /\ route' = "/table-scan"
            /\ UNCHANGED dishFetch
       ELSE /\ dishFetch' = dishFetch + 1
            /\ UNCHANGED <<toast, route>>
    /\ UNCHANGED <<tableNumber, restaurantId, dishes, menuIsLoading,
                   variant, selectedDish, isCustomizationOpen, optionGroups,
                   selectedOptions, comment, isLoading, fetches,
                   cartVars, orderVars, adminVars>>

\* fetchDishes after its await: setDishes(data || []), setIsLoading(false)
fetchDishesDone ==
    /\ dishFetch > 0
    /\ dishFetch' = dishFetch - 1
    /\ dishes' = AvailableDishes
    /\ menuIsLoading' = FALSE
    /\ UNCHANGED <<tableNumber, restaurantId, route, mountPending,
                   dialogVars, cartVars, orderVars, adminVars>>

\* fetchDishes after its await: the query failed (catch, finally)
fetchDishesFailed ==
    /\ dishFetch > 0
    /\ dishFetch' = dishFetch - 1
    /\ toast' = "Erreur"
    /\ menuIsLoading' = FALSE
    /\ UNCHANGED <<tableNumber, restaurantId, route, mountPending, dishes,
                   variant, selectedDish, isCustomizationOpen, optionGroups,
                   selectedOptions, comment, isLoading, fetches,
                   cartVars, orderVars, adminVars>>

\* the page is the one the router shows
OnMenuPage == route = RouteOf(page)

\* a DishCard of the rendered list is pressed
DishCardClick(dish) ==
    /\ OnMenuPage
    /\ ~menuIsLoading
    /\ dish \in Range(dishes)
    /\ handleDishClick(dish)

(***************************************************************************)
(* Submission of the cart as an order                                      *)
(***************************************************************************)
\* the persisted representation of a line item
OrderItemRow(item) ==
    [dish_id |-> item.id, quantity |-> item.quantity,
     unit_price |-> item.price + SumModifiers(item.selectedOptions),
     subtotal |-> Subtotal(item), comment |-> item.comment,
     options_selected |-> item.selectedOptions]

RECURSIVE OrderTotalOfUnits(_)
\* the total counting every line once, whatever its quantity
OrderTotalOfUnits(items) ==
    IF items = << >> THEN 0
    ELSE Head(items).price + SumModifiers(Head(items).selectedOptions)
           + OrderTotalOfUnits(Tail(items))

RECURSIVE OrderTotal(_)
\* the order total: the sum of the line subtotals
OrderTotal(items) ==
    IF items = << >> THEN 0
    ELSE Subtotal(Head(items)) + OrderTotal(Tail(items))

\* the fields of a persisted order other than its status
OrderRow(table, items) ==
    [table |-> table, total |-> OrderTotal(items),
     order_items |-> [ k \in 1..Len(items) |-> OrderItemRow(items[k]) ]]

\* an order id without a row
NoRow == OrderRow(Null, << >>)

\* the cart of the scenario: two burgers with multigrain bread, one salad
ScenarioCart ==
    << CartItem(Dish("burger", 800), 2,
                << SelectedOption(CatalogGroups("burger")[1],
                                  CatalogGroups("burger")[1].options[2]) >>,
                Undefined),
       CartItem(Dish("salad", 550), 1, << >>, Undefined) >>

(***************************************************************************)
(* Initial values of the parts a specification leaves alone                *)
(***************************************************************************)
\* the dialog component each page mounts
DialogOf(p) ==
    CASE p = "Menu" -> "standard"
      [] p = "MenuKids" -> "kids"
      [] OTHER -> "none"

InitCart ==
    /\ cart = << >>
    /\ lastRemoval = NoRemoval

(***************************************************************************)
(* OrdersManagement: the staff order board and the backend it talks to     *)
(***************************************************************************)
OrderIds == { "o1" }

Clients  == { "c1", "c2" }

\* type OrderStatus
Statuses == { "received", "preparing", "ready", "served", "paid" }

\* an order id that the client's list does not hold
Absent == "absent"

EmptyList == [ o \in OrderIds |-> Absent ]

\* the status buttons with the "served" button of a ready order skipping to paid
OfferedActionsSkipping(status) ==
    (IF status = "received" THEN { "preparing" } ELSE {})
      \cup (IF status = "preparing" THEN { "ready" } ELSE {})
      \cup (IF status = "ready" THEN { "paid" } ELSE {})
      \cup (IF status = "served" THEN { "paid" } ELSE {})

\* the status buttons rendered for an order shown with `status`: the new
\* statuses their onClick hands to updateOrderStatus
OfferedActions(status) ==
    (IF status = "received" THEN { "preparing" } ELSE {})
      \cup (IF status = "preparing" THEN { "ready" } ELSE {})
      \cup (IF status = "ready" THEN { "served" } ELSE {})
      \cup (IF status = "served" THEN { "paid" } ELSE {})

\* the board right after its mount effect: fetchOrders() called, channel
\* subscribed, nothing displayed yet
InitOrders ==
    /\ dbStatus = [ o \in OrderIds |-> "received" ]
    /\ orders = [ c \in Clients |-> EmptyList ]
    /\ loading = [ c \in Clients |-> TRUE ]
    /\ fetchReq = [ c \in Clients |-> 1 ]
    /\ fetchResp = [ c \in Clients |-> EmptyBag ]
    /\ updReq = EmptyBag
    /\ updResp = [ c \in Clients |-> EmptyBag ]
    /\ notif = [ c \in Clients |-> 0 ]
    /\ boardToast = [ c \in Clients |-> "none" ]
    /\ failures = 0
    /\ dbRows = [ o \in OrderIds |-> OrderRow("7", ScenarioCart) ]

One(x) == SetToBag({ x })

FetchesOf(c) == fetchReq[c] + BagCardinality(fetchResp[c])

UpdatesOf(c) ==
    BagCardinality(updResp[c])
      + BagCardinality([ r \in { q \in BagToSet(updReq) : q.client = c }
                           |-> updReq[r] ])

\* the backend answers a fetchOrders query with the rows as they are now
ServeFetch(c) ==
    /\ fetchReq[c] > 0
    /\ fetchReq' = [fetchReq EXCEPT ![c] = @ - 1]
    /\ fetchResp' = [fetchResp EXCEPT ![c] = @ (+) One([ok |-> TRUE, data |-> dbStatus])]
    /\ UNCHANGED <<dbStatus, orders, loading, updReq, updResp, notif, boardToast,
                   dialogVars, cartVars, menuVars, dbRows, failures, adminVars>>

\* the backend (or the network) fails a fetchOrders query
FailFetch(c) ==
    /\ fetchReq[c] > 0
    /\ failures < MaxFailures
    /\ failures' = failures + 1
    /\ fetchReq' = [fetchReq EXCEPT ![c] = @ - 1]
    /\ fetchResp' = [fetchResp EXCEPT ![c] = @ (+) One([ok |-> FALSE, data |-> EmptyList])]
    /\ UNCHANGED <<dbStatus, orders, loading, updReq, updResp, notif, boardToast,
                   dialogVars, cartVars, menuVars, dbRows, adminVars>>

\* fetchOrders after its await: setOrders(data) or the error toast, then
\* setLoading(false)
fetchOrdersReturns(c, resp) ==
    /\ BagIn(resp, fetchResp[c])
    /\ fetchResp' = [fetchResp EXCEPT ![c] = @ (-) One(resp)]
    /\ orders' = IF resp.ok THEN [orders EXCEPT ![c] = resp.data] ELSE orders
    /\ boardToast' = IF resp.ok THEN boardToast
                     ELSE [boardToast EXCEPT ![c] = "Erreur lors du chargement des commandes"]
    /\ loading' = [loading EXCEPT ![c] = FALSE]
    /\ UNCHANGED <<dbStatus, fetchReq, updReq, updResp, notif,
                   dialogVars, cartVars, menuVars, dbRows, failures, adminVars>>

\* a status button of the board: updateOrderStatus(order.id, newStatus) up to
\* its await
updateOrderStatus(c, orderId, newStatus) ==
    /\ ~loading[c]
    /\ orders[c][orderId] /= Absent
    /\ newStatus \in OfferedActions(orders[c][orderId])
    /\ UpdatesOf(c) < MaxPending
    /\ updReq' = updReq (+) One([client |-> c, orderId |-> orderId,
                                 status |-> newStatus])
    /\ UNCHANGED <<dbStatus, orders, loading, fetchReq, fetchResp, updResp, notif,
                   boardToast, dialogVars, cartVars, menuVars, dbRows, failures, adminVars>>

\* an update that is applied only while the order is in the status the
\* requested one follows
ApplyUpdateGuarded(req) ==
    /\ BagIn(req, updReq)
    /\ \A c \in Clients : notif[c] < MaxPending
    /\ updReq' = updReq (-) One(req)
    /\ dbStatus' = IF req.status \in OfferedActions(dbStatus[req.orderId])
                   THEN [dbStatus EXCEPT ![req.orderId] = req.status]
                   ELSE dbStatus
    /\ notif' = [ c \in Clients |-> notif[c] + 1 ]
    /\ updResp' = [updResp EXCEPT ![req.client] = @ (+) One([ok |-> TRUE])]
    /\ UNCHANGED <<orders, loading, fetchReq, fetchResp, boardToast,
                   dialogVars, cartVars, menuVars, dbRows, failures, adminVars>>

\* the backend runs update({status}).eq("id", orderId) and publishes the change
ApplyUpdate(req) ==
    /\ BagIn(req, updReq)
    /\ \A c \in Clients : notif[c] < MaxPending
    /\ updReq' = updReq (-) One(req)
    /\ dbStatus' = [dbStatus EXCEPT ![req.orderId] = req.status]
    /\ notif' = [ c \in Clients |-> notif[c] + 1 ]
    /\ updResp' = [updResp EXCEPT ![req.client] = @ (+) One([ok |-> TRUE])]
    /\ UNCHANGED <<orders, loading, fetchReq, fetchResp, boardToast,
                   dialogVars, cartVars, menuVars, dbRows, failures, adminVars>>

\* the backend rejects the update
RejectUpdate(req) ==
    /\ BagIn(req, updReq)
    /\ failures < MaxFailures
    /\ failures' = failures + 1
    /\ updReq' = updReq (-) One(req)
    /\ updResp' = [updResp EXCEPT ![req.client] = @ (+) One([ok |-> FALSE])]
    /\ UNCHANGED <<dbStatus, orders, loading, fetchReq, fetchResp, notif, boardToast,
                   dialogVars, cartVars, menuVars, dbRows, adminVars>>

\* updateOrderStatus calling fetchOrders() after a failed update as well
updateOrderStatusReturnsRefetching(c, resp) ==
    /\ BagIn(resp, updResp[c])
    /\ FetchesOf(c) < MaxPending
    /\ updResp' = [updResp EXCEPT ![c] = @ (-) One(resp)]
    /\ fetchReq' = [fetchReq EXCEPT ![c] = @ + 1]
    /\ boardToast' = [boardToast EXCEPT ![c] =
                        IF resp.ok THEN "Statut mis a jour"
                        ELSE "Erreur lors de la mise a jour"]
    /\ UNCHANGED <<dbStatus, orders, loading, fetchResp, updReq, notif,
                   dialogVars, cartVars, menuVars, dbRows, failures, adminVars>>

\* updateOrderStatus after its await: the success toast and fetchOrders(), or
\* the error toast
updateOrderStatusReturns(c, resp) ==
    /\ BagIn(resp, updResp[c])
    /\ resp.ok => FetchesOf(c) < MaxPending
    /\ updResp' = [updResp EXCEPT ![c] = @ (-) One(resp)]
    /\ fetchReq' = IF resp.ok THEN [fetchReq EXCEPT ![c] = @ + 1] ELSE fetchReq
    /\ boardToast' = [boardToast EXCEPT ![c] =
                        IF resp.ok THEN "Statut mis a jour"
                        ELSE "Erreur lors de la mise a jour"]
    /\ UNCHANGED <<dbStatus, orders, loading, fetchResp, updReq, notif,
                   dialogVars, cartVars, menuVars, dbRows, failures, adminVars>>

\* a callback that writes the changed row into the view instead of fetching
onOrdersChangeMerging(c) ==
    /\ notif[c] > 0
    /\ notif' = [notif EXCEPT ![c] = @ - 1]
    /\ orders' = [orders EXCEPT ![c] = dbStatus]
    /\ UNCHANGED <<dbStatus, loading, fetchReq, fetchResp, updReq, updResp, boardToast,
                   dialogVars, cartVars, menuVars, dbRows, failures, adminVars>>

\* the channel's postgres_changes callback, () => fetchOrders(), run while
\* fewer than `inFlight` queries of the client are under way
onOrdersChangeWithin(c, inFlight) ==
    /\ notif[c] > 0
    /\ FetchesOf(c) < inFlight
    /\ notif' = [notif EXCEPT ![c] = @ - 1]
    /\ fetchReq' = [fetchReq EXCEPT ![c] = @ + 1]
    /\ UNCHANGED <<dbStatus, orders, loading, fetchResp, updReq, updResp, boardToast,
                   dialogVars, cartVars, menuVars, dbRows, failures, adminVars>>

\* the channel's postgres_changes callback: () => fetchOrders()
onOrdersChange(c) == onOrdersChangeWithin(c, MaxPending)

\* the boards mounted before any order exists
InitOrdersEmpty ==
    /\ dbStatus = [ o \in OrderIds |-> Absent ]
    /\ orders = [ c \in Clients |-> EmptyList ]
    /\ loading = [ c \in Clients |-> TRUE ]
    /\ fetchReq = [ c \in Clients |-> 1 ]
    /\ fetchResp = [ c \in Clients |-> EmptyBag ]
    /\ updReq = EmptyBag
    /\ updResp = [ c \in Clients |-> EmptyBag ]
    /\ notif = [ c \in Clients |-> 0 ]
    /\ boardToast = [ c \in Clients |-> "none" ]
    /\ failures = 0
    /\ dbRows = [ o \in OrderIds |-> NoRow ]

\* submission: the order row and its line rows are inserted with the total
\* of the cart and the status received, and the insert is published to the
\* subscribers of the orders table
SubmitOrder(orderId) ==
    /\ OnMenuPage
    /\ ~Falsy(tableNumber)
    /\ cart /= << >>
    /\ dbStatus[orderId] = Absent
    /\ \A c \in Clients : notif[c] < MaxPending
    /\ dbRows' = [dbRows EXCEPT ![orderId] = OrderRow(tableNumber, cart)]
    /\ dbStatus' = [dbStatus EXCEPT ![orderId] = "received"]
    /\ notif' = [ c \in Clients |-> notif[c] + 1 ]
    /\ UNCHANGED <<orders, loading, fetchReq, fetchResp, updReq, updResp,
                   boardToast, failures, dialogVars, cartVars, menuVars, adminVars>>

(***************************************************************************)
(* The catalog tables: foreign keys with ON DELETE CASCADE, row level      *)
(* security                                                                *)
(***************************************************************************)
\* who sends a statement: a visitor without a session, or a signed-in user
Users == { "anon", "customer", "server", "manager", "admin" }

\* the rows of user_roles of a user
UserRoles(user) ==
    IF user \in { "server", "manager", "admin" } THEN { user } ELSE {}

has_role(user, role) == role \in UserRoles(user)

\* policy "Anyone can view option groups" / "Anyone can view options"
ViewPolicy(user) == TRUE

\* a manage policy that lets every staff role through
ManagePolicyAnyStaff(user) ==
    has_role(user, "admin") \/ has_role(user, "manager") \/ has_role(user, "server")

\* policy "Admins can manage option groups" / "Admins can manage options"
ManagePolicy(user) == has_role(user, "admin") \/ has_role(user, "manager")

GroupRow(id, dishId) == [id |-> id, dish_id |-> dishId]

OptionRow(id, groupId) == [id |-> id, option_group_id |-> groupId]

\* the rows of the catalog the menu pages read
CatalogGroupRows ==
    UNION { { GroupRow(g.id, d) : g \in Range(CatalogGroups(d)) } : d \in DishIds }

CatalogOptionRows ==
    UNION { { OptionRow(o.id, g.id) : o \in Range(g.options) } : g \in AllGroups }

GroupRowIds == { g.id : g \in AllGroups }

OptionRowIds == { r.id : r \in CatalogOptionRows }

Write(user, op, rows) == [user |-> user, op |-> op, rows |-> rows]

InitCatalog ==
    /\ tblDishes = DishIds
    /\ tblGroups = CatalogGroupRows
    /\ tblOptions = CatalogOptionRows
    /\ lastWrite = Write("none", "none", 0)

\* DELETE of option groups without the cascade to their options
CascadeGroupsKeepingOptions(groups, options) == options

\* ON DELETE CASCADE of dish_options.option_group_id: the options left once
\* `groups` are the option groups left
CascadeGroups(groups, options) ==
    { o \in options : \E g \in groups : g.id = o.option_group_id }

\* ON DELETE CASCADE of dish_option_groups.dish_id
CascadeDishes(dishIds, groups) ==
    { g \in groups : g.dish_id \in dishIds }

\* INSERT INTO dish_option_groups
InsertGroup(user, id, dishId) ==
    LET ok == /\ ManagePolicy(user)
              /\ dishId \in tblDishes
              /\ \A g \in tblGroups : g.id /= id
    IN  /\ tblGroups' = IF ok THEN tblGroups \cup { GroupRow(id, dishId) }
                        ELSE tblGroups
        /\ lastWrite' = Write(user, "insert", IF ok THEN 1 ELSE 0)
        /\ UNCHANGED <<tblDishes, tblOptions, channelVars, authVars,
                       dialogVars, cartVars, orderVars, menuVars>>

\* UPDATE dish_option_groups SET dish_id WHERE id
UpdateGroup(user, id, dishId) ==
    LET hit == { g \in tblGroups : g.id = id /\ ManagePolicy(user) }
        ok  == hit /= {} /\ dishId \in tblDishes
    IN  /\ tblGroups' = IF ok THEN (tblGroups \ hit) \cup { GroupRow(id, dishId) }
                        ELSE tblGroups
        /\ lastWrite' = Write(user, "update", IF ok THEN 1 ELSE 0)
        /\ UNCHANGED <<tblDishes, tblOptions, channelVars, authVars,
                       dialogVars, cartVars, orderVars, menuVars>>

\* DELETE FROM dish_option_groups WHERE id
DeleteGroup(user, id) ==
    LET hit == { g \in tblGroups : g.id = id /\ ManagePolicy(user) }
    IN  /\ tblGroups' = tblGroups \ hit
        /\ tblOptions' = CascadeGroups(tblGroups', tblOptions)
        /\ lastWrite' = Write(user, "delete", Cardinality(hit))
        /\ UNCHANGED <<tblDishes, channelVars, authVars,
                       dialogVars, cartVars, orderVars, menuVars>>

\* INSERT INTO dish_options
InsertOption(user, id, groupId) ==
    LET ok == /\ ManagePolicy(user)
              /\ \E g \in tblGroups : g.id = groupId
              /\ \A o \in tblOptions : o.id /= id
    IN  /\ tblOptions' = IF ok THEN tblOptions \cup { OptionRow(id, groupId) }
                         ELSE tblOptions
        /\ lastWrite' = Write(user, "insert", IF ok THEN 1 ELSE 0)
        /\ UNCHANGED <<tblDishes, tblGroups, channelVars, authVars,
                       dialogVars, cartVars, orderVars, menuVars>>

\* DELETE FROM dish_options WHERE id
DeleteOption(user, id) ==
    LET hit == { o \in tblOptions : o.id = id /\ ManagePolicy(user) }
    IN  /\ tblOptions' = tblOptions \ hit
        /\ lastWrite' = Write(user, "delete", Cardinality(hit))
        /\ UNCHANGED <<tblDishes, tblGroups, channelVars, authVars,
                       dialogVars, cartVars, orderVars, menuVars>>

\* UPDATE dish_options SET option_group_id WHERE id
UpdateOption(user, id, groupId) ==
    LET hit == { o \in tblOptions : o.id = id /\ ManagePolicy(user) }
        ok  == hit /= {} /\ \E g \in tblGroups : g.id = groupId
    IN  /\ tblOptions' = IF ok THEN (tblOptions \ hit) \cup { OptionRow(id, groupId) }
                         ELSE tblOptions
        /\ lastWrite' = Write(user, "update", IF ok THEN 1 ELSE 0)
        /\ UNCHANGED <<tblDishes, tblGroups, channelVars, authVars,
                       dialogVars, cartVars, orderVars, menuVars>>

\* the dish management's handleDelete: DELETE FROM dishes WHERE id
DeleteDish(id) ==
    /\ id \in tblDishes
    /\ tblDishes' = tblDishes \ { id }
    /\ tblGroups' = CascadeDishes(tblDishes', tblGroups)
    /\ tblOptions' = CascadeGroups(tblGroups', tblOptions)
    /\ UNCHANGED <<lastWrite, channelVars, authVars,
                   dialogVars, cartVars, orderVars, menuVars>>

\* the dish management's handleSubmit without editingDish: INSERT INTO dishes
InsertDish(id) ==
    /\ id \notin tblDishes
    /\ tblDishes' = tblDishes \cup { id }
    /\ UNCHANGED <<tblGroups, tblOptions, lastWrite, channelVars, authVars,
                   dialogVars, cartVars, orderVars, menuVars>>

\* SELECT * FROM dish_option_groups / dish_options as `user`
VisibleGroups(user) == { g \in tblGroups : ViewPolicy(user) }

VisibleOptions(user) == { o \in tblOptions : ViewPolicy(user) }

(***************************************************************************)
(* OrdersManagement: mount and unmount, the orders-changes channel         *)
(***************************************************************************)
\* every board mounted, each with its channel subscribed
InitChannelsOpen ==
    /\ mounted = [ c \in Clients |-> TRUE ]
    /\ channel = [ c \in Clients |-> IF c = "c1" THEN 1 ELSE 2 ]
    /\ subscribed = { 1, 2 }
    /\ opened = 2

\* no board mounted yet
InitChannelsClosed ==
    /\ mounted = [ c \in Clients |-> FALSE ]
    /\ channel = [ c \in Clients |-> 0 ]
    /\ subscribed = {}
    /\ opened = 0

\* the boards' state before any of them is mounted
InitOrdersUnmounted ==
    /\ dbStatus = [ o \in OrderIds |-> "received" ]
    /\ orders = [ c \in Clients |-> EmptyList ]
    /\ loading = [ c \in Clients |-> TRUE ]
    /\ fetchReq = [ c \in Clients |-> 0 ]
    /\ fetchResp = [ c \in Clients |-> EmptyBag ]
    /\ updReq = EmptyBag
    /\ updResp = [ c \in Clients |-> EmptyBag ]
    /\ notif = [ c \in Clients |-> 0 ]
    /\ boardToast = [ c \in Clients |-> "none" ]
    /\ failures = 0
    /\ dbRows = [ o \in OrderIds |-> OrderRow("7", ScenarioCart) ]

\* the mount effect: fetchOrders(), then channel(...).on(...).subscribe()
BoardMount(c) ==
    /\ ~mounted[c]
    /\ opened < MaxMounts
    /\ mounted' = [mounted EXCEPT ![c] = TRUE]
    /\ orders' = [orders EXCEPT ![c] = EmptyList]
    /\ loading' = [loading EXCEPT ![c] = TRUE]
    /\ fetchReq' = [fetchReq EXCEPT ![c] = @ + 1]
    /\ opened' = opened + 1
    /\ channel' = [channel EXCEPT ![c] = opened + 1]
    /\ subscribed' = subscribed \cup { opened + 1 }
    /\ UNCHANGED <<dbStatus, fetchResp, updReq, updResp, notif, boardToast,
                   failures, dbRows, catalogVars, authVars,
                   dialogVars, cartVars, menuVars>>

\* the effect's cleanup without removeChannel
BoardUnmountLeaking(c) ==
    /\ mounted[c]
    /\ mounted' = [mounted EXCEPT ![c] = FALSE]
    /\ channel' = [channel EXCEPT ![c] = 0]
    /\ fetchReq' = [fetchReq EXCEPT ![c] = 0]
    /\ fetchResp' = [fetchResp EXCEPT ![c] = EmptyBag]
    /\ notif' = [notif EXCEPT ![c] = 0]
    /\ UNCHANGED <<subscribed, opened, dbStatus, orders, loading, updReq, updResp,
                   boardToast, failures, dbRows, catalogVars, authVars,
                   dialogVars, cartVars, menuVars>>

\* the effect's cleanup: supabase.removeChannel(channel); what the fetches of
\* the unmounted component still bring back reaches no component
BoardUnmount(c) ==
    /\ mounted[c]
    /\ mounted' = [mounted EXCEPT ![c] = FALSE]
    /\ subscribed' = subscribed \ { channel[c] }
    /\ channel' = [channel EXCEPT ![c] = 0]
    /\ fetchReq' = [fetchReq EXCEPT ![c] = 0]
    /\ fetchResp' = [fetchResp EXCEPT ![c] = EmptyBag]
    /\ notif' = [notif EXCEPT ![c] = 0]
    /\ UNCHANGED <<opened, dbStatus, orders, loading, updReq, updResp,
                   boardToast, failures, dbRows, catalogVars, authVars,
                   dialogVars, cartVars, menuVars>>

\* a row of orders changes in the backend: the event goes to the callback of
\* every subscribed channel
PublishChange(orderId, status) ==
    /\ status /= dbStatus[orderId]
    /\ \A c \in Clients : notif[c] < MaxPending
    /\ dbStatus' = [dbStatus EXCEPT ![orderId] = status]
    /\ notif' = [ c \in Clients |->
                    IF channel[c] \in subscribed THEN notif[c] + 1 ELSE notif[c] ]
    /\ UNCHANGED <<orders, loading, fetchReq, fetchResp, updReq, updResp,
                   boardToast, failures, dbRows, adminVars,
                   dialogVars, cartVars, menuVars>>

(***************************************************************************)
(* AdminDashboard: checkAuth                                               *)
(***************************************************************************)
AppRoles == { "admin", "manager", "server", "customer" }

\* .in("role", ["admin", "manager", "server"])
DashboardRoles == { "admin", "manager", "server" }

Account(user, roles) == [user |-> user, roles |-> roles]

\* the visitor: nobody signed in, or a user with their rows of user_roles
Accounts ==
    { Account(Null, {}) } \cup { Account("u1", r) : r \in SUBSET AppRoles }

\* the dashboard as constructed
InitAuth ==
    /\ account \in Accounts
    /\ signedIn = (account.user /= Null)
    /\ authPc = "mount"
    /\ userRole = Null
    /\ dashLoading = TRUE
    /\ adminRoute = "/admin"
    /\ dashToast = "none"

\* the dashboard of an admin, after checkAuth
InitAuthDone ==
    /\ account = Account("u1", { "admin" })
    /\ signedIn = TRUE
    /\ authPc = "done"
    /\ userRole = "admin"
    /\ dashLoading = FALSE
    /\ adminRoute = "/admin"
    /\ dashToast = "none"

\* the mount effect: checkAuth() up to await supabase.auth.getUser()
checkAuth ==
    /\ authPc = "mount"
    /\ authPc' = "getUser"
    /\ UNCHANGED <<account, signedIn, userRole, dashLoading, adminRoute, dashToast,
                   catalogVars, channelVars,
                   dialogVars, cartVars, orderVars, menuVars>>

\* getUser() returns: "user", "none" (no user in the result) or "throws"
getUserReturns(outcome) ==
    /\ authPc = "getUser"
    /\ outcome = "user" => signedIn
    /\ IF outcome = "user"
       THEN /\ authPc' = "roles"
            /\ UNCHANGED <<adminRoute, dashLoading>>
       ELSE /\ adminRoute' = "/admin/login"
            /\ dashLoading' = FALSE
            /\ authPc' = "done"
    /\ UNCHANGED <<account, signedIn, userRole, dashToast,
                   catalogVars, channelVars,
                   dialogVars, cartVars, orderVars, menuVars>>

\* the rows the user_roles query matches
MatchingRoles == account.roles \cap DashboardRoles

\* the role query without its .in("role", ...) filter
rolesReturnUnfiltered(outcome) ==
    /\ authPc = "roles"
    /\ outcome = "row" => Cardinality(account.roles) = 1
    /\ CASE outcome = "row" ->
              /\ userRole' = CHOOSE r \in account.roles : TRUE
              /\ dashLoading' = FALSE
              /\ authPc' = "done"
              /\ UNCHANGED <<adminRoute, dashToast>>
         [] outcome = "null" ->
              /\ dashToast' = "Acces non autorise"
              /\ authPc' = "signOut"
              /\ UNCHANGED <<userRole, adminRoute, dashLoading>>
         [] OTHER ->
              /\ adminRoute' = "/admin/login"
              /\ dashLoading' = FALSE
              /\ authPc' = "done"
              /\ UNCHANGED <<userRole, dashToast>>
    /\ UNCHANGED <<account, signedIn, catalogVars, channelVars,
                   dialogVars, cartVars, orderVars, menuVars>>

\* the user_roles query with .single() returns: "row" (exactly one row
\* matches), "null" (data is null: no row, several rows, or an error in the
\* result) or "throws"
rolesReturn(outcome) ==
    /\ authPc = "roles"
    /\ outcome = "row" => Cardinality(MatchingRoles) = 1
    /\ CASE outcome = "row" ->
              /\ userRole' = CHOOSE r \in MatchingRoles : TRUE
              /\ dashLoading' = FALSE
              /\ authPc' = "done"
              /\ UNCHANGED <<adminRoute, dashToast>>
         [] outcome = "null" ->
              /\ dashToast' = "Acces non autorise"
              /\ authPc' = "signOut"
              /\ UNCHANGED <<userRole, adminRoute, dashLoading>>
         [] OTHER ->
              /\ adminRoute' = "/admin/login"
              /\ dashLoading' = FALSE
              /\ authPc' = "done"
              /\ UNCHANGED <<userRole, dashToast>>
    /\ UNCHANGED <<account, signedIn, catalogVars, channelVars,
                   dialogVars, cartVars, orderVars, menuVars>>

\* await supabase.auth.signOut() of checkAuth returns ("ok") or throws; either
\* way navigate("/admin/login") and the finally block follow
signOutReturns(outcome) ==
    /\ authPc = "signOut"
    /\ signedIn' = IF outcome = "ok" THEN FALSE ELSE signedIn
    /\ adminRoute' = "/admin/login"
    /\ dashLoading' = FALSE
    /\ authPc' = "done"
    /\ UNCHANGED <<account, userRole, dashToast, catalogVars, channelVars,
                   dialogVars, cartVars, orderVars, menuVars>>

\* the "Deconnexion" button of the rendered dashboard
handleLogout ==
    /\ authPc = "done"
    /\ adminRoute = "/admin"
    /\ signedIn' = FALSE
    /\ dashToast' = "Deconnexion reussie"
    /\ adminRoute' = "/admin/login"
    /\ UNCHANGED <<account, authPc, userRole, dashLoading, catalogVars, channelVars,
                   dialogVars, cartVars, orderVars, menuVars>>

\* the values of the parts of the backend and of the dashboard that a
\* specification of the menu pages or of the boards leaves alone
InitAdmin ==
    /\ InitCatalog
    /\ InitChannelsOpen
    /\ InitAuthDone

(***************************************************************************)
(* SpecDialog: one session of a menu page with the customization dialog    *)
(***************************************************************************)
InitDialogSession ==
    /\ page \in { "Menu", "MenuKids" }
    /\ variant = DialogOf(page)
    /\ InitDialog
    /\ InitCart
    /\ InitOrders
    /\ InitMenuLoaded
    /\ InitAdmin

NextDialog ==
    \/ \E dish \in Dishes : handleDishClick(dish)
    \/ \E d \in DishIds : fetchOptionGroupsDone(d)
    \/ \E d \in DishIds : fetchOptionGroupsFailed(d)
    \/ \E g \in AllGroups : \E o \in Range(g.options) : ToggleOption(g, o)
    \/ \E g \in AllGroups : \E o \in Range(g.options) : RadioChange(g, o)
    \/ \E c \in Comments : SetComment(c)
    \/ CloseDialog
    \/ handleAddToCart

SpecDialog == InitDialogSession /\ [][NextDialog]_vars

(***************************************************************************)
(* SpecCart: one session of a menu page, seen from its cart                *)
(***************************************************************************)
\* MenuKids' cart functions are those of Menu, line for line
InitCartSession ==
    /\ InitCart
    /\ page \in { "Menu", "MenuById" }
    /\ variant = DialogOf(page)
    /\ InitDialog
    /\ InitOrders
    /\ InitMenuLoaded
    /\ InitAdmin

NextCart ==
    \/ \E dish \in Dishes : \E sel \in DialogResults(dish.id) :
          \E c \in Comments : CartAdd(dish, sel, c)
    \/ \E i \in Indices : \E q \in Quantities : \E c \in UpdateComments :
          CartUpdate(i, q, c)
    \/ \E i \in Indices : CartRemove(i)
    \/ \E dish \in Dishes : CartAddById(dish)
    \/ \E d \in DishIds : \E q \in Quantities : \E c \in UpdateComments :
          CartUpdateById(d, q, c)
    \/ \E d \in DishIds : CartRemoveById(d)

SpecCart == InitCartSession /\ [][NextCart]_vars

(***************************************************************************)
(* SpecOrders: the staff clients' boards over the persisted orders         *)
(***************************************************************************)
InitBoards ==
    /\ InitOrders
    /\ page = "Menu"
    /\ variant = DialogOf(page)
    /\ InitDialog
    /\ InitCart
    /\ InitMenuLoaded
    /\ InitAdmin

Responses ==
    { [ok |-> TRUE, data |-> d] : d \in [OrderIds -> Statuses \cup { Absent }] }
      \cup { [ok |-> FALSE, data |-> EmptyList] }

Requests ==
    { [client |-> c, orderId |-> o, status |-> st] :
        c \in Clients, o \in OrderIds, st \in Statuses }

NextOrders ==
    \/ \E c \in Clients : ServeFetch(c)
    \/ \E c \in Clients : FailFetch(c)
    \/ \E c \in Clients : \E resp \in Responses : fetchOrdersReturns(c, resp)
    \/ \E c \in Clients : \E o \in OrderIds : \E st \in Statuses :
          updateOrderStatus(c, o, st)
    \/ \E req \in Requests : ApplyUpdate(req)
    \/ \E req \in Requests : RejectUpdate(req)
    \/ \E c \in Clients : \E resp \in { [ok |-> TRUE], [ok |-> FALSE] } :
          updateOrderStatusReturns(c, resp)
    \/ \E c \in Clients : onOrdersChange(c)

SpecOrders == InitBoards /\ [][NextOrders]_vars

(***************************************************************************)
(* SpecMenu: a menu page from its mount on, with or without table context  *)
(***************************************************************************)
InitMenuSession ==
    /\ page \in { "Menu", "MenuKids" }
    /\ variant = DialogOf(page)
    /\ tableNumber \in TableNumbers
    /\ restaurantId \in RestaurantIds
    /\ InitMenu
    /\ InitDialog
    /\ InitCart
    /\ InitOrders
    /\ InitAdmin

NextMenu ==
    \/ MenuMount
    \/ fetchDishesDone
    \/ fetchDishesFailed
    \/ \E dish \in Dishes : DishCardClick(dish)
    \/ \E d \in DishIds : fetchOptionGroupsDone(d)
    \/ \E d \in DishIds : fetchOptionGroupsFailed(d)
    \/ \E g \in AllGroups : \E o \in Range(g.options) : ToggleOption(g, o)
    \/ \E g \in AllGroups : \E o \in Range(g.options) : RadioChange(g, o)
    \/ \E c \in Comments : SetComment(c)
    \/ CloseDialog
    \/ handleAddToCart

SpecMenu == InitMenuSession /\ [][NextMenu]_vars

(***************************************************************************)
(* SpecCheckout: a cart is composed and submitted, the boards take the     *)
(* order through its statuses                                              *)
(***************************************************************************)
InitCheckout ==
    /\ page = "Menu"
    /\ variant = DialogOf(page)
    /\ InitMenuLoaded
    /\ InitAdmin
    /\ InitDialog
    /\ InitCart
    /\ InitOrdersEmpty

\* the session is still composing its cart: nothing has been submitted
Composing == \A o \in OrderIds : dbStatus[o] = Absent

\* the dialog hands a customized dish to addToCart
ComposeAdd(dish, sel) == Composing /\ CartAdd(dish, sel, "")

\* the cart sheet changes the quantity of a line item
ComposeUpdate(itemIndex, quantity) ==
    Composing /\ CartUpdate(itemIndex, quantity, Undefined)

NextCheckout ==
    \/ \E dish \in Dishes : \E sel \in DialogResults(dish.id) :
          ComposeAdd(dish, sel)
    \/ \E i \in 0 .. MaxCart - 1 : \E q \in 1 .. MaxQty : ComposeUpdate(i, q)
    \/ \E o \in OrderIds : SubmitOrder(o)
    \/ \E c \in Clients : ServeFetch(c)
    \/ \E c \in Clients : \E resp \in Responses : fetchOrdersReturns(c, resp)
    \/ \E o \in OrderIds : \E st \in Statuses : updateOrderStatus("c1", o, st)
    \/ \E req \in Requests : ApplyUpdate(req)
    \/ \E resp \in { [ok |-> TRUE] } : updateOrderStatusReturns("c1", resp)
    \/ \E c \in Clients : onOrdersChange(c)

SpecCheckout == InitCheckout /\ [][NextCheckout]_vars

(***************************************************************************)
(* SpecCatalog: statements of any user on the option tables, and the dish  *)
(* management's inserts and deletes                                        *)
(***************************************************************************)
InitCatalogSession ==
    /\ InitCatalog
    /\ InitChannelsOpen
    /\ InitAuthDone
    /\ page = "Menu"
    /\ variant = DialogOf(page)
    /\ InitDialog
    /\ InitCart
    /\ InitOrders
    /\ InitMenuLoaded

\* the rows the statements of this specification address
WriteDishIds == { "burger", "salad" }

WriteGroupIds == { "sauce", "dressing" }

WriteOptionIds == { "bbq", "vinaigrette" }

NextCatalog ==
    \/ \E u \in Users : \E id \in WriteGroupIds : \E d \in WriteDishIds :
          InsertGroup(u, id, d)
    \/ \E u \in Users : \E id \in WriteGroupIds : \E d \in WriteDishIds :
          UpdateGroup(u, id, d)
    \/ \E u \in Users : \E id \in WriteGroupIds : DeleteGroup(u, id)
    \/ \E u \in Users : \E id \in WriteOptionIds : \E g \in WriteGroupIds :
          InsertOption(u, id, g)
    \/ \E u \in Users : \E id \in WriteOptionIds : \E g \in WriteGroupIds :
          UpdateOption(u, id, g)
    \/ \E u \in Users : \E id \in WriteOptionIds : DeleteOption(u, id)
    \/ \E d \in WriteDishIds : DeleteDish(d)
    \/ \E d \in WriteDishIds : InsertDish(d)

SpecCatalog == InitCatalogSession /\ [][NextCatalog]_vars

(***************************************************************************)
(* SpecSubscription: the boards are mounted and unmounted while orders     *)
(* change in the backend                                                   *)
(***************************************************************************)
InitSubscription ==
    /\ InitOrdersUnmounted
    /\ InitChannelsClosed
    /\ InitCatalog
    /\ InitAuthDone
    /\ page = "Menu"
    /\ variant = DialogOf(page)
    /\ InitDialog
    /\ InitCart
    /\ InitMenuLoaded

NextSubscription ==
    \/ \E c \in Clients : BoardMount(c)
    \/ \E c \in Clients : BoardUnmount(c)
    \/ \E o \in OrderIds : \E st \in Statuses : PublishChange(o, st)
    \/ \E c \in Clients : ServeFetch(c)
    \/ \E c \in Clients : \E resp \in Responses : fetchOrdersReturns(c, resp)
    \/ \E c \in Clients : onOrdersChange(c)

SpecSubscription == InitSubscription /\ [][NextSubscription]_vars

(***************************************************************************)
(* SpecAuth: the dashboard is opened by any visitor                        *)
(***************************************************************************)
InitDashboard ==
    /\ InitAuth
    /\ InitCatalog
    /\ InitChannelsOpen
    /\ page = "Menu"
    /\ variant = DialogOf(page)
    /\ InitDialog
    /\ InitCart
    /\ InitOrders
    /\ InitMenuLoaded

NextAuth ==
    \/ checkAuth
    \/ \E o \in { "user", "none", "throws" } : getUserReturns(o)
    \/ \E o \in { "row", "null", "throws" } : rolesReturn(o)
    \/ \E o \in { "ok", "throws" } : signOutReturns(o)
    \/ handleLogout

SpecAuth == InitDashboard /\ [][NextAuth]_vars

(***************************************************************************)
(* SpecRefresh: the boards under fair scheduling; a change callback runs   *)
(* while an earlier query of the same board is still under way             *)
(***************************************************************************)
\* the channel's callback, run as soon as the notification arrives
RefreshOnChange(c) == onOrdersChangeWithin(c, MaxInFlight)

\* the backend answers every request and the event loop runs every pending
\* continuation and callback; nobody is bound to press a button
FairRefresh ==
    /\ \A c \in Clients :
         /\ WF_vars(ServeFetch(c))
         /\ WF_vars(\E resp \in Responses : fetchOrdersReturns(c, resp))
         /\ WF_vars(RefreshOnChange(c))
         /\ WF_vars(updateOrderStatusReturns(c, [ok |-> TRUE]))
    /\ WF_vars(\E req \in Requests : ApplyUpdate(req))

NextRefresh ==
    \/ \E c \in Clients : ServeFetch(c)
    \/ \E c \in Clients : \E resp \in Responses : fetchOrdersReturns(c, resp)
    \/ \E o \in OrderIds : \E st \in Statuses : updateOrderStatus("c2", o, st)
    \/ \E req \in Requests : ApplyUpdate(req)
    \/ \E c \in Clients : updateOrderStatusReturns(c, [ok |-> TRUE])
    \/ \E c \in Clients : RefreshOnChange(c)

SpecRefresh == InitBoards /\ [][NextRefresh]_vars /\ FairRefresh

(***************************************************************************)
(* Properties of the customization dialog                                  *)
(***************************************************************************)
\* the entries of `sel` that reference the group, and the others, in order
EntriesOf(sel, groupId) == SelectSeq(sel, LAMBDA e : e.groupId = groupId)

EntriesNotOf(sel, groupId) == SelectSeq(sel, LAMBDA e : e.groupId /= groupId)

RequiredSingle(g) == g.is_required /\ ~g.allow_multiple

RequiredMulti(g) == g.is_required /\ g.allow_multiple

\* C1: a line item of a dish that has a required single-select group always
\* carries a selection from that group, and a required single-select group
\* with exactly one selection is valid.
C1_RequiredSingleSelect ==
    /\ \A k \in 1..Len(cart) :
         \A g \in Range(CatalogGroups(cart[k].id)) :
            RequiredSingle(g) => Len(EntriesOf(cart[k].selectedOptions, g.id)) >= 1
    /\ \A g \in Range(optionGroups) :
         (RequiredSingle(g) /\ Len(EntriesOf(selectedOptions, g.id)) = 1)
            => isGroupValid(selectedOptions, g)

\* C2: a line item of a dish that has a required multi-select group always
\* carries at least one selection from that group, and such a group with one
\* or more selections is valid whatever the other groups hold.
C2_RequiredMultiSelect ==
    /\ \A k \in 1..Len(cart) :
         \A g \in Range(CatalogGroups(cart[k].id)) :
            RequiredMulti(g) => Len(EntriesOf(cart[k].selectedOptions, g.id)) >= 1
    /\ \A g \in Range(optionGroups) :
         (RequiredMulti(g) /\ Len(EntriesOf(selectedOptions, g.id)) >= 1)
            => isGroupValid(selectedOptions, g)

\* choosing `option` in the single-select `group`: the radio of the standard
\* dialog, or the kids dialog's button on an option that is not selected
ChooseSingle(group, option) ==
    /\ ~group.allow_multiple
    /\ \/ RadioChange(group, option)
       \/ ToggleOption(group, option) /\ ~isSelected(option)

\* C3: a single-select group never has two entries in selectedOptions, and
\* choosing an option of a single-select group leaves exactly that option as
\* the group's entry and the entries of the other groups as they were.
C3_SingleSelectReplaces ==
    /\ [](\A g \in AllGroups :
            ~g.allow_multiple => Len(EntriesOf(selectedOptions, g.id)) <= 1)
    /\ [][\A g \in AllGroups : \A o \in Range(g.options) :
            ChooseSingle(g, o) =>
              /\ EntriesOf(selectedOptions', g.id) = << SelectedOption(g, o) >>
              /\ EntriesNotOf(selectedOptions', g.id)
                   = EntriesNotOf(selectedOptions, g.id)]_vars

\* C3 witness: the bread of a burger was chosen after a sauce, and both are held
C3_Witness ==
    /\ Len(selectedOptions) = 2
    /\ selectedOptions[1].groupId = "sauce"
    /\ selectedOptions[2] = SelectedOption(CatalogGroups("burger")[1],
                                           CatalogGroups("burger")[1].options[2])

\* validity of a group as the validator's contract words it
GroupValid(sel, g) ==
    IF ~g.is_required THEN TRUE
    ELSE IF g.allow_multiple THEN Len(EntriesOf(sel, g.id)) >= 1
         ELSE Len(EntriesOf(sel, g.id)) = 1

RequiredGroupMissing ==
    \E g \in Range(CatalogGroups(selectedDish.id)) :
       g.is_required /\ EntriesOf(selectedOptions, g.id) = << >>

\* C16: when handleAddToCart runs while a required group of the dish has no
\* selection, it raises the "Options manquantes" toast, does not call
\* onAddToCart (the cart is unchanged), leaves the dialog open and issues no
\* backend request.
C16_ValidationBlocksLocally ==
    [][(handleAddToCart /\ RequiredGroupMissing) =>
          /\ toast' = "Options manquantes"
          /\ cart' = cart
          /\ isCustomizationOpen'
          /\ fetches' = fetches]_vars

\* C17: in a multi-select group, toggling an option on appends one
\* SelectedOption for it and keeps every existing entry; toggling it off
\* removes that option's entry only, the other entries staying in place.
C17_MultiSelectToggle ==
    [][\A g \in AllGroups : \A o \in Range(g.options) :
         (g.allow_multiple /\ ToggleOption(g, o)) =>
            IF ~isSelected(o)
            THEN /\ Len(selectedOptions') = Len(selectedOptions) + 1
                 /\ SubSeq(selectedOptions', 1, Len(selectedOptions))
                      = selectedOptions
                 /\ selectedOptions'[Len(selectedOptions')] = SelectedOption(g, o)
            ELSE /\ Len(selectedOptions') = Len(selectedOptions) - 1
                 /\ selectedOptions'
                      = SelectSeq(selectedOptions, LAMBDA e : e.optionId /= o.id)
                 /\ EntriesNotOf(selectedOptions', g.id)
                      = EntriesNotOf(selectedOptions, g.id)]_vars

\* C17 witness: bbq then ketchup were toggled on after the bread was chosen,
\* and all three entries are held in that order
C17_Witness ==
    /\ Len(selectedOptions) = 3
    /\ selectedOptions[1].groupId = "bread"
    /\ selectedOptions[2].optionId = "bbq"
    /\ selectedOptions[3].optionId = "ketchup"

(***************************************************************************)
(* Properties of the cart                                                  *)
(***************************************************************************)
CatalogPrice(dishId) == (CHOOSE d \in Dishes : d.id = dishId).price

AllOptions == UNION { Range(g.options) : g \in AllGroups }

CatalogModifier(optionId) ==
    (CHOOSE o \in AllOptions : o.id = optionId).price_modifier

RECURSIVE CatalogModifiers(_, _)
\* the catalog's modifiers of the first n selected options, added up
CatalogModifiers(sel, n) ==
    IF n = 0 THEN 0
    ELSE CatalogModifiers(sel, n - 1) + CatalogModifier(sel[n].optionId)

OptionIds(item) ==
    [ i \in 1..Len(item.selectedOptions) |-> item.selectedOptions[i].optionId ]

\* C7: the subtotal of every line item is (the dish's price + the price
\* modifiers of its selected options) x quantity; a burger at 8.00 with the
\* single option multigrain (+0.50) and quantity 2 comes to 17.00.
C7_Subtotal ==
    \A k \in 1..Len(cart) :
       /\ Subtotal(cart[k])
            = (CatalogPrice(cart[k].id)
                 + CatalogModifiers(cart[k].selectedOptions,
                                    Len(cart[k].selectedOptions)))
              * cart[k].quantity
       /\ (/\ cart[k].id = "burger"
           /\ OptionIds(cart[k]) = << "multigrain" >>
           /\ cart[k].quantity = 2) => Subtotal(cart[k]) = 1700

\* C7 witness: the burger with multigrain bread, twice
C7_Witness ==
    \E k \in 1..Len(cart) :
       /\ cart[k].id = "burger"
       /\ OptionIds(cart[k]) = << "multigrain" >>
       /\ cart[k].quantity = 2
       /\ Subtotal(cart[k]) = 1700

\* the sequence without the element at the 0-based index, if there is one
WithoutIndex(s, index) ==
    IF index \in 0 .. Len(s) - 1
    THEN SubSeq(s, 1, index) \o SubSeq(s, index + 2, Len(s))
    ELSE s

\* C8: updateCartItem(index, 0, comment) removes the line item at index and
\* leaves exactly the cart removeFromCart(index) leaves.
C8_UpdateZeroRemoves ==
    [][\A i \in Indices : \A c \in UpdateComments :
         CartUpdate(i, 0, c) =>
            /\ cart' = removeFromCart(cart, i)
            /\ cart' = WithoutIndex(cart, i)]_vars

\* C8 witness: updateCartItem with quantity 0 has just deleted a line item
\* and left another one
C8_Witness ==
    /\ lastRemoval.by = "updateCartItem"
    /\ lastRemoval.removed = 1
    /\ Len(cart) >= 1

\* C9 as claimed: a removal repeated with the same argument changes nothing
C9_RemovalIdempotent ==
    lastRemoval.repeat => lastRemoval.removed = 0

\* C9 amended: removal by dish id is idempotent; removal by index, repeated
\* with the same index, changes nothing exactly when that index referenced no
\* line item any more after the first removal, and otherwise deletes the item
\* that moved to that index.
C9_RepeatedRemoval ==
    lastRemoval.repeat =>
       IF page = "MenuById"
       THEN lastRemoval.removed = 0
       ELSE LET before == Len(cart) + lastRemoval.removed
            IN  /\ lastRemoval.removed \in { 0, 1 }
                /\ lastRemoval.removed = 0
                     <=> lastRemoval.index \notin 0 .. before - 1

\* C9 witness: the same index removed twice, the second time deleting the
\* line item that had moved to it
C9_Witness ==
    /\ IndexKeyed
    /\ lastRemoval.repeat
    /\ lastRemoval.removed = 1

C11_UpdateInPlace ==
    [][\A i \in Indices : \A q \in Quantities \ { 0 } : \A c \in UpdateComments :
         CartUpdate(i, q, c) =>
            IF i \in 0 .. Len(cart) - 1
            THEN /\ Len(cart') = Len(cart)
                 /\ cart'[i + 1].quantity = q
                 /\ cart'[i + 1].comment = c
                 /\ cart'[i + 1].id = cart[i + 1].id
                 /\ cart'[i + 1].name = cart[i + 1].name
                 /\ cart'[i + 1].price = cart[i + 1].price
                 /\ cart'[i + 1].selectedOptions = cart[i + 1].selectedOptions
                 /\ \A k \in 1..Len(cart) : k /= i + 1 => cart'[k] = cart[k]
            ELSE cart' = cart]_vars

\* C11 witness: the second of two line items carries the quantity and the
\* comment of an update and still has its options; the first is as added
C11_Witness ==
    /\ IndexKeyed
    /\ Len(cart) = 2
    /\ cart[1].quantity = 1
    /\ cart[1].comment = Undefined
    /\ cart[2].quantity = MaxQty
    /\ cart[2].comment = "sans oignons"
    /\ Len(cart[2].selectedOptions) = 3

\* C12: addToCart(dish, selectedOptions, comment) appends one line item with
\* quantity 1, the dish's fields, the given selected options and the given
\* comment (none for the empty comment) at the end of the cart and leaves
\* the line items before it unchanged, also when one of them is of the same
\* dish.
C12_AddAppends ==
    [][\A dish \in Dishes : \A c \in Comments :
         \A sel \in DialogResults(dish.id) :
            CartAdd(dish, sel, c) =>
               /\ Len(cart') = Len(cart) + 1
               /\ SubSeq(cart', 1, Len(cart)) = cart
               /\ cart'[Len(cart')].quantity = 1
               /\ cart'[Len(cart')].id = dish.id
               /\ cart'[Len(cart')].name = dish.name
               /\ cart'[Len(cart')].price = dish.price
               /\ cart'[Len(cart')].selectedOptions = sel
               /\ cart'[Len(cart')].comment = (IF c = "" THEN Undefined ELSE c)]_vars

\* C12 witness: two line items of the same dish, with different options, each
\* with quantity 1
C12_Witness ==
    /\ IndexKeyed
    /\ Len(cart) = 2
    /\ cart[1].id = cart[2].id
    /\ cart[1].selectedOptions /= cart[2].selectedOptions
    /\ cart[1].quantity = 1
    /\ cart[2].quantity = 1

UnitPrice(item) == item.price + SumModifiers(item.selectedOptions)

\* C14: the unit price of a line item is the dish's base price plus the price
\* modifiers of its selected options, and a call of updateCartItem changes
\* neither the price nor the selected options of any item it keeps.
C14_PriceFixedAtAdd ==
    /\ [](\A k \in 1..Len(cart) :
            UnitPrice(cart[k])
              = CatalogPrice(cart[k].id)
                  + CatalogModifiers(cart[k].selectedOptions,
                                     Len(cart[k].selectedOptions)))
    /\ [][\A q \in Quantities : \A c \in UpdateComments :
            /\ \A i \in Indices :
                 CartUpdate(i, q, c) =>
                    LET kept == IF q = 0 THEN WithoutIndex(cart, i) ELSE cart
                    IN  /\ Len(cart') = Len(kept)
                        /\ \A k \in 1..Len(kept) :
                              /\ cart'[k].price = kept[k].price
                              /\ cart'[k].selectedOptions = kept[k].selectedOptions
                              /\ UnitPrice(cart'[k]) = UnitPrice(kept[k])
            /\ \A d \in DishIds :
                 (CartUpdateById(d, q, c) /\ q /= 0) =>
                    /\ Len(cart') = Len(cart)
                    /\ \A k \in 1..Len(cart) :
                          /\ cart'[k].price = cart[k].price
                          /\ cart'[k].selectedOptions = cart[k].selectedOptions]_vars

\* C14 witness: a burger with brioche, ketchup and bbq (8.30) whose quantity
\* and comment were edited
C14_Witness ==
    \E k \in 1..Len(cart) :
       /\ cart[k].id = "burger"
       /\ OptionIds(cart[k]) = << "brioche", "ketchup", "bbq" >>
       /\ cart[k].quantity = MaxQty
       /\ cart[k].comment = "sans oignons"
       /\ UnitPrice(cart[k]) = 830

(***************************************************************************)
(* Properties of the order lifecycle                                       *)
(***************************************************************************)
Lifecycle == << "received", "preparing", "ready", "served", "paid" >>

Rank(status) == CHOOSE i \in 1..Len(Lifecycle) : Lifecycle[i] = status

Successor(status) == Lifecycle[Rank(status) + 1]

\* C4: whenever the persisted status of an order changes, it moves to the
\* next status of the lifecycle: never backward, never over a status.
C4_StatusOnlyAdvances ==
    [][\A o \in OrderIds :
         dbStatus'[o] /= dbStatus[o]
            => Rank(dbStatus'[o]) = Rank(dbStatus[o]) + 1]_vars

\* C5: an order displayed as received, preparing, ready or served offers
\* exactly one action, and pressing it calls updateOrderStatus with the
\* successor of the displayed status; a served order offers no return to ready.
C5_SingleNextAction ==
    /\ [](\A c \in Clients : \A o \in OrderIds :
            /\ orders[c][o] \in Statuses \ { "paid" }
                 => OfferedActions(orders[c][o]) = { Successor(orders[c][o]) }
            /\ orders[c][o] = "ready" => OfferedActions(orders[c][o]) = { "served" }
            /\ orders[c][o] = "served" => "ready" \notin OfferedActions(orders[c][o]))
    /\ [][\A c \in Clients : \A o \in OrderIds : \A st \in Statuses :
            updateOrderStatus(c, o, st) => st = Successor(orders[c][o])]_vars

\* C5 witness: a client shows an order as ready and its "served" update is on
\* its way to the backend
C5_Witness ==
    \E req \in BagToSet(updReq) :
       /\ req.status = "served"
       /\ orders[req.client][req.orderId] = "ready"

\* C6: a paid order offers no action, and once the persisted status of an
\* order is paid it stays paid.
C6_PaidIsTerminal ==
    /\ [](OfferedActions("paid") = {})
    /\ [][\A o \in OrderIds :
            dbStatus[o] = "paid" => dbStatus'[o] = "paid"]_vars

\* C19: when the backend fails a status update or a fetch of a board, the
\* board raises its error toast, and the failure itself changes neither a
\* client's order list nor the persisted status and starts no request: no
\* re-fetch, no retry of the update.
C19_FailureIsAbandoned ==
    [][\A c \in Clients :
         /\ updateOrderStatusReturns(c, [ok |-> FALSE]) =>
               /\ boardToast'[c] = "Erreur lors de la mise a jour"
               /\ orders' = orders
               /\ dbStatus' = dbStatus
               /\ fetchReq' = fetchReq
               /\ updReq' = updReq
         /\ fetchOrdersReturns(c, [ok |-> FALSE, data |-> EmptyList]) =>
               /\ boardToast'[c] = "Erreur lors du chargement des commandes"
               /\ orders' = orders
               /\ dbStatus' = dbStatus
               /\ fetchReq' = fetchReq
               /\ updReq' = updReq]_vars

\* C19 witness: a client shows the error toast of a rejected update, still
\* lists the order as received, and has no request in flight
C19_Witness ==
    \E c \in Clients : \E o \in OrderIds :
       /\ boardToast[c] = "Erreur lors de la mise a jour"
       /\ orders[c][o] = "received"
       /\ dbStatus[o] = "received"
       /\ FetchesOf(c) = 0
       /\ UpdatesOf(c) = 0

(***************************************************************************)
(* Properties of the submission                                            *)
(***************************************************************************)
RECURSIVE SubtotalsOfRows(_, _)
\* the subtotals of the first n persisted line rows, added up
SubtotalsOfRows(rows, n) ==
    IF n = 0 THEN 0 ELSE SubtotalsOfRows(rows, n - 1) + rows[n].subtotal

\* C18: a submitted order starts as received with a total equal to the sum of
\* the subtotals of the cart's line items (17.00 and 5.50 give 22.50), and
\* once an order exists no step changes any of its fields but the status.
C18_OrderCreation ==
    /\ [](\A o \in OrderIds :
            dbStatus[o] /= Absent =>
               /\ dbRows[o].total
                    = SubtotalsOfRows(dbRows[o].order_items,
                                      Len(dbRows[o].order_items))
               /\ [ k \in 1..Len(dbRows[o].order_items) |->
                      dbRows[o].order_items[k].subtotal ] = << 1700, 550 >>
                    => dbRows[o].total = 2250)
    /\ [][\A o \in OrderIds :
            /\ SubmitOrder(o) =>
                  /\ dbStatus'[o] = "received"
                  /\ Len(dbRows'[o].order_items) = Len(cart)
                  /\ \A k \in 1..Len(cart) :
                        dbRows'[o].order_items[k].subtotal
                          = (cart[k].price + SumModifiers(cart[k].selectedOptions))
                              * cart[k].quantity
            /\ dbStatus[o] /= Absent => dbRows'[o] = dbRows[o]]_vars

\* C18 witness: the order of two burgers with multigrain bread (17.00) and a
\* salad (5.50) was submitted with total 22.50 and has been advanced by a
\* board
C18_Witness ==
    \E o \in OrderIds :
       /\ dbStatus[o] = "ready"
       /\ dbRows[o].total = 2250
       /\ Len(dbRows[o].order_items) = 2
       /\ dbRows[o].order_items[1].subtotal = 1700
       /\ dbRows[o].order_items[2].subtotal = 550

(***************************************************************************)
(* Properties of the session check                                         *)
(***************************************************************************)
\* C20: in a session whose table number or restaurant identifier is missing,
\* the mounted page redirects to /table-scan with an error toast, no dish
\* fetch is ever issued or answered, no dish is shown or opened, and the cart
\* stays empty.
C20_MissingSessionRedirects ==
    (Falsy(tableNumber) \/ Falsy(restaurantId)) =>
       /\ dishFetch = 0
       /\ menuIsLoading
       /\ dishes = << >>
       /\ selectedDish = NoDish
       /\ cart = << >>
       /\ ~mountPending => (route = "/table-scan" /\ toast = "Erreur")

\* C20 witness: a page mounted without a restaurant identifier has redirected
C20_Witness ==
    /\ tableNumber = "7"
    /\ restaurantId = Null
    /\ ~mountPending
    /\ route = "/table-scan"
    /\ cart = << >>

(***************************************************************************)
(* Properties of the catalog tables                                        *)
(***************************************************************************)
\* the options of the group row ids in `groupIds`
OptionsOfGroups(groupIds, options) ==
    { o \in options : o.option_group_id \in groupIds }

\* the group rows of a dish
GroupsOfDish(dishId, groups) == { g \in groups : g.dish_id = dishId }

\* C23: every option row references an existing option group and every option
\* group an existing dish; a delete of an option group removes all its
\* options, and a delete of a dish removes its option groups and their
\* options.
C23_DeletesCascade ==
    /\ [](/\ \A o \in tblOptions : \E g \in tblGroups : g.id = o.option_group_id
          /\ \A g \in tblGroups : g.dish_id \in tblDishes)
    /\ [][/\ \A id \in WriteGroupIds :
               (DeleteGroup("admin", id) \/ DeleteGroup("manager", id)) =>
                  /\ \A g \in tblGroups' : g.id /= id
                  /\ OptionsOfGroups({ id }, tblOptions') = {}
          /\ \A d \in WriteDishIds :
               DeleteDish(d) =>
                  /\ GroupsOfDish(d, tblGroups') = {}
                  /\ OptionsOfGroups({ g.id : g \in GroupsOfDish(d, tblGroups) },
                                     tblOptions') = {}]_vars

\* C23 witness: the burger was deleted, and with it its two option groups and
\* their four options, while the salad keeps its group and option
C23_Witness ==
    /\ "burger" \notin tblDishes
    /\ GroupsOfDish("burger", tblGroups) = {}
    /\ OptionsOfGroups({ "bread", "sauce" }, tblOptions) = {}
    /\ GroupRow("dressing", "salad") \in tblGroups
    /\ OptionRow("vinaigrette", "dressing") \in tblOptions

\* the user holds the admin or the manager role
AdminOrManager(user) ==
    "admin" \in UserRoles(user) \/ "manager" \in UserRoles(user)

\* C24: every user reads all option groups and options; a user who is neither
\* admin nor manager changes neither table by an insert, update or delete,
\* and the insert, update or delete of an admin or manager that violates no
\* key takes effect.
C24_OnlyAdminsWrite ==
    /\ [](\A u \in Users :
            VisibleGroups(u) = tblGroups /\ VisibleOptions(u) = tblOptions)
    /\ [][\A u \in Users :
            /\ \A id \in WriteGroupIds : \A d \in WriteDishIds :
                 /\ InsertGroup(u, id, d) =>
                      IF AdminOrManager(u) /\ d \in tblDishes
                           /\ (\A g \in tblGroups : g.id /= id)
                      THEN GroupRow(id, d) \in tblGroups'
                      ELSE tblGroups' = tblGroups /\ tblOptions' = tblOptions
                 /\ UpdateGroup(u, id, d) =>
                      IF AdminOrManager(u) /\ d \in tblDishes
                           /\ (\E g \in tblGroups : g.id = id)
                      THEN GroupRow(id, d) \in tblGroups'
                      ELSE tblGroups' = tblGroups /\ tblOptions' = tblOptions
            /\ \A id \in WriteGroupIds :
                 DeleteGroup(u, id) =>
                    IF AdminOrManager(u)
                    THEN \A g \in tblGroups' : g.id /= id
                    ELSE tblGroups' = tblGroups /\ tblOptions' = tblOptions
            /\ \A id \in WriteOptionIds : \A gid \in WriteGroupIds :
                 /\ InsertOption(u, id, gid) =>
                      IF AdminOrManager(u) /\ (\E g \in tblGroups : g.id = gid)
                           /\ (\A o \in tblOptions : o.id /= id)
                      THEN OptionRow(id, gid) \in tblOptions'
                      ELSE tblGroups' = tblGroups /\ tblOptions' = tblOptions
                 /\ UpdateOption(u, id, gid) =>
                      IF AdminOrManager(u) /\ (\E g \in tblGroups : g.id = gid)
                           /\ (\E o \in tblOptions : o.id = id)
                      THEN OptionRow(id, gid) \in tblOptions'
                      ELSE tblGroups' = tblGroups /\ tblOptions' = tblOptions
            /\ \A id \in WriteOptionIds :
                 DeleteOption(u, id) =>
                    IF AdminOrManager(u)
                    THEN \A o \in tblOptions' : o.id /= id
                    ELSE tblGroups' = tblGroups /\ tblOptions' = tblOptions]_vars

\* C24 witness: a server's delete of an existing row was the last statement
\* and removed no row, after a manager's statement had changed the tables
C24_Witness ==
    /\ lastWrite = Write("server", "delete", 0)
    /\ OptionRow("bbq", "sauce") \in tblOptions
    /\ OptionRow("vinaigrette", "sauce") \in tblOptions

(***************************************************************************)
(* Properties of concurrent updates and of the boards' refresh             *)
(***************************************************************************)
\* C21: an update is applied whatever the order's current status is: the
\* persisted status of the addressed order becomes the requested one and no
\* other order changes, so of two concurrent updates both are applied and the
\* one applied last determines the persisted status.
C21_LastWriteWins ==
    [][\A req \in Requests :
         ApplyUpdate(req) =>
            /\ dbStatus' = [dbStatus EXCEPT ![req.orderId] = req.status]
            /\ BagIn([ok |-> TRUE], updResp'[req.client])]_vars

\* C21 witness: c2 took the order to ready and saw its update succeed; the
\* update to preparing that c1 had sent before was applied after it and
\* determines the persisted status
C21_Witness ==
    /\ dbStatus["o1"] = "preparing"
    /\ orders["c2"]["o1"] = "ready"
    /\ boardToast["c2"] = "Statut mis a jour"
    /\ BagIn([ok |-> TRUE], updResp["c1"])
    /\ updReq = EmptyBag

\* C22: the change callback issues one fetch and leaves the view alone; a
\* successful fetch replaces the whole view of that client by the rows it
\* returned and a failed one leaves it as it was; the views of the other
\* clients do not change in either step.
C22_RefetchOnEveryChange ==
    [][\A c \in Clients :
         /\ onOrdersChange(c) =>
               /\ fetchReq'[c] = fetchReq[c] + 1
               /\ orders' = orders
         /\ \A resp \in Responses :
               fetchOrdersReturns(c, resp) =>
                  /\ orders'[c] = IF resp.ok THEN resp.data ELSE orders[c]
                  /\ \A other \in Clients \ { c } : orders'[other] = orders[other]]_vars

\* C22 witness: c1, which has sent no update, shows the status that c2's
\* update persisted, with no notification left to handle
C22_Witness ==
    /\ dbStatus["o1"] = "preparing"
    /\ orders["c1"]["o1"] = "preparing"
    /\ boardToast["c1"] = "none"
    /\ boardToast["c2"] = "Statut mis a jour"
    /\ notif["c1"] = 0

(***************************************************************************)
(* Properties of the dialog's groups and of the selections                 *)
(***************************************************************************)
\* C26: whenever the dialog is open for a dish and not loading, optionGroups
\* are exactly the groups of that dish.
C26_GroupsOfTheOpenDish ==
    GroupsShown => optionGroups = CatalogGroups(selectedDish.id)

\* the entry names an option group of the dish and an option of that group
ReferencesDish(entry, dishId) ==
    \E g \in Range(CatalogGroups(dishId)) :
       /\ g.id = entry.groupId
       /\ \E o \in Range(g.options) : o.id = entry.optionId

\* C28: every selected option of every cart line references an option group
\* of the line's own dish and an option of that group.
C28_CartOptionsOfOwnDish ==
    \A k \in 1..Len(cart) :
       \A i \in 1..Len(cart[k].selectedOptions) :
          ReferencesDish(cart[k].selectedOptions[i], cart[k].id)

\* no option id occurs twice in the sequence of selected options
DistinctOptionIds(sel) ==
    \A i, j \in 1..Len(sel) : sel[i].optionId = sel[j].optionId => i = j

\* C29: no option id occurs more than once in selectedOptions, in the dialog
\* and in every cart line.
C29_NoDuplicateOption ==
    /\ DistinctOptionIds(selectedOptions)
    /\ \A k \in 1..Len(cart) : DistinctOptionIds(cart[k].selectedOptions)

\* C29 witness: a cart line holds the bread and both sauces, each once, after
\* the sauces were checked in a multi-select group
C29_Witness ==
    /\ Len(cart) = 1
    /\ Len(cart[1].selectedOptions) = 3
    /\ { cart[1].selectedOptions[i].optionId : i \in 1..3 }
         = { "brioche", "ketchup", "bbq" }

(***************************************************************************)
(* Properties of the boards' subscription                                  *)
(***************************************************************************)
MountedClients == { c \in Clients : mounted[c] }

\* C25: each mounted board holds exactly one subscribed channel of its own, an
\* unmounted board holds none, and no channel stays subscribed without its
\* board: a mount opens one channel and the unmount releases that channel.
C25_ChannelReleasedOnUnmount ==
    /\ [](/\ \A c \in Clients :
               IF mounted[c] THEN channel[c] \in subscribed
               ELSE channel[c] = 0 /\ notif[c] = 0
          /\ subscribed = { channel[c] : c \in MountedClients }
          /\ Cardinality(subscribed) = Cardinality(MountedClients))
    /\ [][\A c \in Clients :
            /\ BoardMount(c) =>
                  /\ channel'[c] \notin subscribed
                  /\ subscribed' = subscribed \cup { channel'[c] }
            /\ BoardUnmount(c) => subscribed' = subscribed \ { channel[c] }]_vars

\* C25 witness: after three mounts and two unmounts only the channel of the
\* one board still mounted is subscribed
C25_Witness ==
    /\ opened = 3
    /\ mounted["c1"]
    /\ ~mounted["c2"]
    /\ subscribed = { 3 }
    /\ channel["c1"] = 3

(***************************************************************************)
(* Properties of the dashboard's access check                              *)
(***************************************************************************)
\* C30: userRole is set only for a signed-in user and only to a role of theirs
\* among admin, manager and server; checkAuth ends either with the role set or
\* on /admin/login, never both; a user without a matching role row is
\* navigated only after signOut has returned; loading is true until checkAuth
\* ends and false from then on.
C30_CheckAuthOutcomes ==
    /\ [](/\ userRole /= Null =>
               /\ account.user /= Null
               /\ userRole \in account.roles
               /\ userRole \in { "admin", "manager", "server" }
          /\ dashLoading = (authPc /= "done")
          /\ authPc /= "done" => adminRoute = "/admin"
          /\ (authPc = "done" /\ userRole = Null) => adminRoute = "/admin/login"
          /\ (authPc = "done" /\ userRole /= Null /\ dashToast = "none")
                => adminRoute = "/admin" /\ signedIn)
    /\ [][/\ rolesReturn("null") =>
               /\ authPc' = "signOut"
               /\ adminRoute' = adminRoute
               /\ userRole' = Null
          /\ (authPc = "roles" /\ adminRoute' /= adminRoute) => rolesReturn("throws")
          /\ signOutReturns("ok") => ~signedIn'
          /\ \A o \in { "ok", "throws" } :
               signOutReturns(o) => adminRoute' = "/admin/login" /\ ~dashLoading']_vars

\* C30 witness: a signed-in user whose only role is customer has been refused,
\* signed out and sent to the login page
C30_Witness ==
    /\ account = Account("u1", { "customer" })
    /\ authPc = "done"
    /\ userRole = Null
    /\ dashToast = "Acces non autorise"
    /\ ~signedIn
    /\ adminRoute = "/admin/login"
    /\ ~dashLoading

(***************************************************************************)
(* Properties of the boards' convergence                                   *)
(***************************************************************************)
\* every board displays the persisted status of every order
ViewsCurrent == \A c \in Clients : \A o \in OrderIds : orders[c][o] = dbStatus[o]

\* C27: if from some point on the persisted statuses no longer change, then
\* from some point on every board displays the persisted status of every
\* order.
C27_ViewsConverge == <>[][dbStatus' = dbStatus]_vars => <>[]ViewsCurrent

====
